---- MODULE Spec2Model ----
(***************************************************************************)
(* PIN PLAN (BudgetWise-AI): the budget/goal calculation functions of      *)
(* utils.py and the Streamlit script app.py that calls them and forwards   *)
(* a budget context to the Dedalus agent.                                  *)
(*                                                                         *)
(* Numbers.  Python floats are modelled by exact fixed-point integers:     *)
(*   - money handed to paper_cut_yearly_impact is in cents, a frequency    *)
(*     in tenths of an occurrence per week, so a yearly product is in      *)
(*     thousandths of a dollar and round(x, 2) is a division by 10;        *)
(*   - goal_eta's three amounts share one unit (their quotient is what     *)
(*     matters); months_needed is reported in tenths of a month;           *)
(*   - a date is a day number, eta_date = today + days.                    *)
(* round() is Python's round-half-to-even, int() truncates.                *)
(* None is the empty tuple, a present value v is <<v>>; open_dialog, a      *)
(* string or None in the code, holds the string "None" for None.           *)
(***************************************************************************)
EXTENDS Integers, Sequences, FiniteSets, TLC

----------------------------------------------------------------------------
(* Bounds of the model and program constants *)

MaxAmount == 4
MaxTurns == 1

weeks_per_year == 52
DaysPerMonthX100 == 3044

None == <<>>
Some(v) == <<v>>

Max(a, b) == IF a >= b THEN a ELSE b
Abs(a) == IF a >= 0 THEN a ELSE -a

\* round(n / d) to the nearest integer, ties to the even one (d > 0)
RoundHalfEven(n, d) ==
  LET q == n \div d
      r == n % d
  IN  IF 2 * r < d THEN q
      ELSE IF 2 * r > d THEN q + 1
      ELSE IF q % 2 = 0 THEN q ELSE q + 1

----------------------------------------------------------------------------
(* utils.py *)

GOAL_CATEGORIES == <<"Home", "Car", "Vacation", "School">>

\* mutant: the floor at zero is missing
calculate_monthly_savings_noclamp(income, expenses) == income - expenses

calculate_monthly_savings(income, expenses) == Max(0, income - expenses)

DefaultDescription == "Paper cut expense vs alternative"

\* cents * tenths * 52 is in thousandths of a dollar; round(x, 2) gives cents
RoundCents(thousandths) == RoundHalfEven(thousandths, 10)

\* mutant: the subtraction is the wrong way round
paper_cut_savings_swapped(current_expense, alternative_expense, frequency_per_week, description) ==
  LET freq == Max(0, frequency_per_week)
      yearly_current == current_expense * freq * weeks_per_year
      yearly_alternative == alternative_expense * freq * weeks_per_year
  IN  [ yearly_current |-> RoundCents(yearly_current),
        yearly_alternative |-> RoundCents(yearly_alternative),
        yearly_savings |-> RoundCents(yearly_alternative - yearly_current),
        description |-> IF description = "" THEN DefaultDescription ELSE description ]

\* mutant: a frequency below zero is used as it is
paper_cut_frequency_unclamped(current_expense, alternative_expense, frequency_per_week, description) ==
  LET yearly_current == current_expense * frequency_per_week * weeks_per_year
      yearly_alternative == alternative_expense * frequency_per_week * weeks_per_year
  IN  [ yearly_current |-> RoundCents(yearly_current),
        yearly_alternative |-> RoundCents(yearly_alternative),
        yearly_savings |-> RoundCents(yearly_current - yearly_alternative),
        description |-> IF description = "" THEN DefaultDescription ELSE description ]

\* mutant: the description is returned as given, empty or not
paper_cut_description_as_given(current_expense, alternative_expense, frequency_per_week, description) ==
  LET freq == Max(0, frequency_per_week)
      yearly_current == current_expense * freq * weeks_per_year
      yearly_alternative == alternative_expense * freq * weeks_per_year
  IN  [ yearly_current |-> RoundCents(yearly_current),
        yearly_alternative |-> RoundCents(yearly_alternative),
        yearly_savings |-> RoundCents(yearly_current - yearly_alternative),
        description |-> description ]

paper_cut_yearly_impact(current_expense, alternative_expense, frequency_per_week, description) ==
  LET current == current_expense
      alternative == alternative_expense
      freq == Max(0, frequency_per_week)
      yearly_current == current * freq * weeks_per_year
      yearly_alternative == alternative * freq * weeks_per_year
      yearly_savings == yearly_current - yearly_alternative
  IN  [ yearly_current |-> RoundCents(yearly_current),
        yearly_alternative |-> RoundCents(yearly_alternative),
        yearly_savings |-> RoundCents(yearly_savings),
        description |-> IF description = "" THEN DefaultDescription ELSE description ]

\* round(remaining / monthly, 1), in tenths of a month
RoundTenths(remaining, monthly) == RoundHalfEven(10 * remaining, monthly)

\* int((remaining / monthly) * 30.44), the quotient unrounded
EtaDays(remaining, monthly) == (remaining * DaysPerMonthX100) \div (monthly * 100)

\* floor(m * 30.44) for m given in tenths of a month
DaysOfTenths(tenths) == (tenths * DaysPerMonthX100) \div 1000

AlreadyMet(goal_name) ==
  [ months_needed |-> Some(0), reachable |-> TRUE,
    message |-> <<"already reached", goal_name>>, eta_date |-> None ]

Unreachable(goal_name, monthly) ==
  [ months_needed |-> None, reachable |-> FALSE,
    message |-> <<"cannot reach", goal_name, monthly>>, eta_date |-> None ]

Horizon(goal_name, remaining, monthly, today) ==
  [ months_needed |-> Some(RoundTenths(remaining, monthly)), reachable |-> TRUE,
    message |-> <<"will reach", goal_name, monthly, RoundTenths(remaining, monthly)>>,
    eta_date |-> Some(today + EtaDays(remaining, monthly)) ]

\* mutant: the unreachable test comes before the already-met test
goal_eta_deficit_first(goal_amount, current_savings, monthly_savings, goal_name, today) ==
  LET remaining == Max(0, goal_amount) - Max(0, current_savings)
  IN  IF monthly_savings <= 0 THEN Unreachable(goal_name, monthly_savings)
      ELSE IF remaining <= 0 THEN AlreadyMet(goal_name)
      ELSE Horizon(goal_name, remaining, monthly_savings, today)

\* mutant: the already-met branch reports today's date as the ETA
goal_eta_dated_when_met(goal_amount, current_savings, monthly_savings, goal_name, today) ==
  LET remaining == Max(0, goal_amount) - Max(0, current_savings)
  IN  IF remaining <= 0 THEN [AlreadyMet(goal_name) EXCEPT !.eta_date = Some(today)]
      ELSE IF monthly_savings <= 0 THEN Unreachable(goal_name, monthly_savings)
      ELSE Horizon(goal_name, remaining, monthly_savings, today)

\* mutant: the date is computed from the reported (rounded) months
goal_eta_days_of_rounded(goal_amount, current_savings, monthly_savings, goal_name, today) ==
  LET remaining == Max(0, goal_amount) - Max(0, current_savings)
  IN  IF remaining <= 0 THEN AlreadyMet(goal_name)
      ELSE IF monthly_savings <= 0 THEN Unreachable(goal_name, monthly_savings)
      ELSE [Horizon(goal_name, remaining, monthly_savings, today) EXCEPT
              !.eta_date = Some(today + DaysOfTenths(RoundTenths(remaining, monthly_savings)))]

\* mutant: current_savings below zero is used as it is
goal_eta_savings_unclamped(goal_amount, current_savings, monthly_savings, goal_name, today) ==
  LET remaining == Max(0, goal_amount) - current_savings
  IN  IF remaining <= 0 THEN AlreadyMet(goal_name)
      ELSE IF monthly_savings <= 0 THEN Unreachable(goal_name, monthly_savings)
      ELSE Horizon(goal_name, remaining, monthly_savings, today)

\* mutant: the months reported are rounded up to the next tenth
goal_eta_months_rounded_up(goal_amount, current_savings, monthly_savings, goal_name, today) ==
  LET remaining == Max(0, goal_amount) - Max(0, current_savings)
  IN  IF remaining <= 0 THEN AlreadyMet(goal_name)
      ELSE IF monthly_savings <= 0 THEN Unreachable(goal_name, monthly_savings)
      ELSE [Horizon(goal_name, remaining, monthly_savings, today) EXCEPT
              !.months_needed =
                 Some(-((-(10 * remaining)) \div monthly_savings))]

goal_eta(goal_amount, current_savings, monthly_savings, goal_name, today) ==
  LET goal == Max(0, goal_amount)
      current == Max(0, current_savings)
      monthly == monthly_savings
      remaining == goal - current
  IN  IF remaining <= 0 THEN AlreadyMet(goal_name)
      ELSE IF monthly <= 0 THEN Unreachable(goal_name, monthly)
      ELSE Horizon(goal_name, remaining, monthly, today)

----------------------------------------------------------------------------
(* Calls of the three functions of utils.py on bounded inputs *)

VARIABLES calc_fn, calc_args, calc_ret

calcVars == <<calc_fn, calc_args, calc_ret>>

\* amounts: small ones around zero and the spec's examples
Amounts == (-2 .. MaxAmount) \cup {100, 1000, 1500}
Rates == (-1 .. MaxAmount) \cup {100, 500}
\* cents per occurrence, and occurrences per week in tenths
Cents == (-1 .. MaxAmount) \cup {20, 450}
Frequencies == (-1 .. MaxAmount) \cup {-30, 11, 50}
Descriptions == {"", "Starbucks"}
Todays == {0, 700}

\* the arguments of a call of each function
SavingsArgs == [income : Amounts, expenses : Amounts]
PaperCutArgs == [current_expense : Cents, alternative_expense : Cents,
                 frequency_per_week : Frequencies, description : Descriptions]
GoalEtaArgs == [goal_amount : Amounts, current_savings : Amounts,
                monthly_savings : Rates, goal_name : {"Goal"}, today : Todays]

\* no call of utils.py is being looked at
CalcNone ==
  /\ calc_fn = "none"
  /\ calc_args = <<>>
  /\ calc_ret = None

\* a call about to be made: the function and its arguments
CalcPending ==
  /\ \/ calc_fn = "calculate_monthly_savings" /\ calc_args \in SavingsArgs
     \/ calc_fn = "paper_cut_yearly_impact" /\ calc_args \in PaperCutArgs
     \/ calc_fn = "goal_eta" /\ calc_args \in GoalEtaArgs
  /\ calc_ret = None

----------------------------------------------------------------------------
(* app.py: the Dedalus key lookup *)

\* Values a DEDALUS_API_KEY setting can hold (the text after parsing)
KeyTexts == {"", "  ", "your_key_here", "YOUR_KEY_HERE", "your_actual_key_here",
             "sk-live", " sk-live "}
Settings == {None} \cup {Some(k) : k \in KeyTexts}

\* str.strip()
Strip(k) ==
  CASE k = "  " -> ""
    [] k = " sk-live " -> "sk-live"
    [] OTHER -> k

\* str.lower()
Lower(k) ==
  CASE k = "YOUR_KEY_HERE" -> "your_key_here"
    [] OTHER -> k

Placeholders == {"your_key_here", "your_actual_key_here"}

\* (x or "").strip() of an optional setting
StripOrEmpty(setting) == IF setting = None THEN "" ELSE Strip(setting[1])

\* load_dotenv (override off): the file's value is taken only when the
\* variable is not in the environment at all
LoadDotenv(environ, file) == IF environ = None THEN file ELSE environ

\* the three lookups of _get_dedalus_api_key, before the placeholder test:
\* the key found and the environment left behind
FindKey(environ, file) ==
  LET env1 == LoadDotenv(environ, file)
      key1 == StripOrEmpty(env1)
      key2 == IF key1 = "" THEN StripOrEmpty(file) ELSE key1
      env2 == IF key1 = "" /\ key2 # "" THEN Some(key2) ELSE env1
      key3 == IF key2 = "" THEN StripOrEmpty(file) ELSE key2
      env3 == IF key2 = "" /\ key3 # "" THEN Some(key3) ELSE env2
  IN  [key |-> key3, environ |-> env3]

\* mutant: the placeholder test compares the key as written
UsableKey_case_sensitive(key) == IF key = "" \/ key \in Placeholders THEN "" ELSE key

UsableKey(key) == IF key = "" \/ Lower(key) \in Placeholders THEN "" ELSE key

_get_dedalus_api_key(environ, file) == UsableKey(FindKey(environ, file).key)

----------------------------------------------------------------------------
(* app.py: run_ai_assistant *)

models_to_try ==
  <<"anthropic/claude-opus-4-6", "anthropic/claude-sonnet-4",
    "anthropic/claude-3-5-sonnet-latest">>

\* the exception classes an attempt can raise, with their base classes
Bases(cls) ==
  CASE cls = "InternalServerError" -> {"InternalServerError", "APIStatusError", "APIError", "Exception"}
    [] cls = "RateLimitError" -> {"RateLimitError", "APIStatusError", "APIError", "Exception"}
    [] cls = "AuthenticationError" -> {"AuthenticationError", "APIStatusError", "APIError", "Exception"}
    [] cls = "APITimeoutError" -> {"APITimeoutError", "APIConnectionError", "APIError", "Exception"}
    [] cls = "APIConnectionError" -> {"APIConnectionError", "APIError", "Exception"}
    [] cls = "APIError" -> {"APIError", "Exception"}
    [] OTHER -> {cls, "Exception"}

\* what one attempt (asyncio.run(_run(model))) can end in
Failures ==
  { [ok |-> FALSE, cls |-> "InternalServerError", text |-> "500"],
    [ok |-> FALSE, cls |-> "RateLimitError", text |-> "429"],
    [ok |-> FALSE, cls |-> "APIConnectionError", text |-> "connection error"],
    [ok |-> FALSE, cls |-> "APITimeoutError", text |-> "timed out"],
    [ok |-> FALSE, cls |-> "AuthenticationError", text |-> "invalid key"],
    [ok |-> FALSE, cls |-> "APIError", text |-> "bad request"],
    [ok |-> FALSE, cls |-> "APIError", text |-> "stream ended"],
    [ok |-> FALSE, cls |-> "ValueError", text |-> "bad value"] }
Successes ==
  { [ok |-> TRUE, cls |-> "", text |-> "You would save $1,118 a year."],
    [ok |-> TRUE, cls |-> "", text |-> ""] }
Outcomes == Successes \cup Failures

\* the texts run_ai_assistant returns: a kind and the text it embeds
Text(kind, detail) == [kind |-> kind, detail |-> detail]
NotConfigured == Text("not configured", "")
AllModelsFailed == Text("server errors for all models, try again later", "support@dedaluslabs.ai")
NoText == Text("", "")

\* mutant: the generic APIError handler comes first
Handlers_generic_first ==
  <<"APIError", "InternalServerError", "RateLimitError", "APIConnectionError", "Exception">>

\* mutant: the catch-all handler is missing
Handlers_no_catch_all ==
  <<"InternalServerError", "RateLimitError", "APIConnectionError", "APIError">>

\* the except clauses of the loop, in order
Handlers ==
  <<"InternalServerError", "RateLimitError", "APIConnectionError", "APIError", "Exception">>

\* the first except clause that matches, "" when none does
Caught(cls) ==
  LET hits == {i \in 1 .. Len(Handlers) : Handlers[i] \in Bases(cls)}
  IN  IF hits = {} THEN ""
      ELSE Handlers[CHOOSE i \in hits : \A j \in hits : i <= j]

\* mutant: a rate limit moves on to the next model like a server error
Handle_rate_limit_retried(outcome) ==
  IF outcome.ok
    THEN [do |-> "return",
          text |-> Text("answer", IF outcome.text = "" THEN "No response." ELSE outcome.text)]
  ELSE LET h == Caught(outcome.cls)
       IN  CASE h \in {"InternalServerError", "RateLimitError"} ->
                  [do |-> "continue", text |-> NoText]
             [] h = "APIConnectionError" ->
                  [do |-> "return", text |-> Text("could not reach Dedalus", "")]
             [] h = "APIError" ->
                  [do |-> "return", text |-> Text("API error", outcome.text)]
             [] h = "Exception" ->
                  [do |-> "return", text |-> Text("something went wrong", outcome.text)]
             [] OTHER -> [do |-> "raise", text |-> NoText]

\* what the body of the loop does with one outcome
\* ("continue", "return" with a text, or "raise")
Handle(outcome) ==
  IF outcome.ok
    THEN [do |-> "return",
          text |-> Text("answer", IF outcome.text = "" THEN "No response." ELSE outcome.text)]
  ELSE LET h == Caught(outcome.cls)
       IN  CASE h = "InternalServerError" -> [do |-> "continue", text |-> NoText]
             [] h = "RateLimitError" ->
                  [do |-> "return", text |-> Text("rate limit, wait a minute", "")]
             [] h = "APIConnectionError" ->
                  [do |-> "return", text |-> Text("could not reach Dedalus", "")]
             [] h = "APIError" ->
                  [do |-> "return", text |-> Text("API error", outcome.text)]
             [] h = "Exception" ->
                  [do |-> "return", text |-> Text("something went wrong", outcome.text)]
             [] OTHER -> [do |-> "raise", text |-> NoText]

\* the prompt sent with every attempt of one call
Prompt(user_message, budget_context) ==
  [budget_context |-> budget_context, user_message |-> user_message]

----------------------------------------------------------------------------
(* app.py: session state, widgets and the script *)

VARIABLES
  income, expenses, current_savings, goals,  \* st.session_state
  open_dialog, messages,                     \* st.session_state
  sb_income, sb_expenses,                    \* values held by the sidebar widgets
  income_from,                               \* the widget income was last taken from
  os_environ, dotenv_file,                   \* DEDALUS_API_KEY in the environment / .env
  pc, call_args, api_key, model_idx, attempts, reply, \* the running run_ai_assistant
  goal_categories,                           \* the list utils.GOAL_CATEGORIES
  sort_option, goals_data                    \* the goal dialog: "Sort by" and the listing

sessionVars == <<income, expenses, current_savings, goals, open_dialog,
                 sb_income, sb_expenses, income_from>>
envVars == <<os_environ, dotenv_file>>
agentVars == <<pc, call_args, api_key, model_idx, attempts, reply>>
dialogVars == <<goal_categories, sort_option, goals_data>>
appVars == <<sessionVars, messages, envVars, agentVars, dialogVars>>
vars == <<calcVars, appVars>>

Categories == {GOAL_CATEGORIES[i] : i \in 1 .. Len(GOAL_CATEGORIES)}

\* what the user types into the number inputs, in cents (min_value = 0.0)
IncomeInputs == {0, 100000}
ExpenseInputs == {0, 150000}
SavingsInputs == {0, 50000}
GoalInputs == {0, 250075}
\* goal amounts the session may hold from earlier use of the goal dialog
GoalTargets == GoalInputs \cup {30000}
ChatInputs == {"When can I afford a car?"}
\* the day datetime.now() gives when the goal dialog is drawn
DialogDays == {700}

\* f"{v:,.2f}" of an amount in cents: the same cents
FormatCents(v) == v
\* f"{v:,.0f}" of an amount in cents: whole dollars, rounded half to even
FormatDollars(v) == RoundHalfEven(v, 100)

\* mutant: the context shows income minus expenses as it is
budget_context_raw_difference(inc, exp, monthly_savings, cur, gls) ==
  [ income |-> FormatCents(inc), expenses |-> FormatCents(exp),
    monthly_savings |-> FormatCents(inc - exp),
    current_savings |-> FormatCents(cur),
    goals |-> [g \in Categories |-> FormatDollars(gls[g])] ]

\* the context string, as the numbers it spells out
budget_context(inc, exp, monthly_savings, cur, gls) ==
  [ income |-> FormatCents(inc), expenses |-> FormatCents(exp),
    monthly_savings |-> FormatCents(monthly_savings),
    current_savings |-> FormatCents(cur),
    goals |-> [g \in Categories |-> FormatDollars(gls[g])] ]

\* A number_input of the sidebar in one run of the script: the value just
\* typed into it, else the value the widget holds (by_key: the key alone
\* identifies the widget) or its value= argument (a changed default makes
\* a new widget).
NumberInput(key, edited, typed, by_key, held, default) ==
  IF edited = key THEN typed ELSE IF by_key THEN held ELSE default

\* the sidebar block: the three inputs and the monthly savings
Sidebar(edited, typed, by_key) ==
  LET inc == NumberInput("income_input", edited, typed, by_key, sb_income, income)
      exp == NumberInput("expenses_input", edited, typed, by_key, sb_expenses, expenses)
      cur == NumberInput("savings_input", edited, typed, by_key, current_savings, current_savings)
  IN  [ income |-> inc, expenses |-> exp, current_savings |-> cur,
        monthly_savings |-> calculate_monthly_savings(inc, exp) ]

\* the options of the "Sort by" selectbox; the first is selected at the start
SortOptions ==
  << "Default (Home, Car, Vacation, School)", "Soonest ETA first",
     "Target amount (low -> high)", "Target amount (high -> low)" >>

\* goals_data as the loop over GOAL_CATEGORIES builds it; months_of_income
\* is the quotient target / monthly_income kept as the pair of its terms
GoalsData(cats, gls, inc, exp, cur, today) ==
  [ i \in 1 .. Len(cats) |->
      LET goal_name == cats[i]
          target == gls[goal_name]
      IN  [ goal_name |-> goal_name,
            target |-> target,
            eta_result |-> goal_eta(target, cur, calculate_monthly_savings(inc, exp),
                                    goal_name, today),
            months_of_income |-> IF inc > 0 /\ target > 0
                                   THEN Some(<<target, inc>>) ELSE None ] ]

\* mutant: a goal without months_needed sorts as one needing none
eta_months_none_as_zero(item) ==
  IF item.eta_result.months_needed = None THEN Some(0)
  ELSE item.eta_result.months_needed

\* the sort key of "Soonest ETA first"; None stands for float("inf")
eta_months(item) == item.eta_result.months_needed

\* whether item a sorts strictly before item b under a sort option
Precedes(option, a, b) ==
  CASE option = "Soonest ETA first" ->
         /\ eta_months(a) # None
         /\ eta_months(b) = None \/ eta_months(a)[1] < eta_months(b)[1]
    [] option = "Target amount (low -> high)" -> a.target < b.target
    [] option = "Target amount (high -> low)" -> a.target > b.target
    [] OTHER -> FALSE

\* list.sort is stable: an item goes before the first item already placed
\* that it strictly precedes, and after every other
Insert(option, sorted, x) ==
  LET later == {i \in 1 .. Len(sorted) : Precedes(option, x, sorted[i])}
      at == IF later = {} THEN Len(sorted) + 1
            ELSE CHOOSE i \in later : \A j \in later : i <= j
  IN  SubSeq(sorted, 1, at - 1) \o <<x>> \o SubSeq(sorted, at, Len(sorted))

RECURSIVE Sort(_, _)
Sort(option, data) ==
  IF data = <<>> THEN <<>>
  ELSE Insert(option, Sort(option, SubSeq(data, 1, Len(data) - 1)), data[Len(data)])

\* mutant: with no sort asked for the goals are listed by target
Listing_default_by_target(option, data) ==
  IF option = SortOptions[1] THEN Sort("Target amount (low -> high)", data)
  ELSE Sort(option, data)

\* the listing of the dialog: goals_data, sorted if one of the three sort
\* options is selected
Listing(option, data) ==
  IF option \in {"Soonest ETA first", "Target amount (low -> high)",
                 "Target amount (high -> low)"}
    THEN Sort(option, data)
    ELSE data

\* what dialog_goal lists in one run
DialogGoal(gls, option, today) ==
  Listing(option, GoalsData(goal_categories, gls, income, expenses, current_savings, today))

AgentIdle ==
  /\ pc = "idle"
  /\ call_args = <<>>
  /\ api_key = ""
  /\ model_idx = 0
  /\ attempts = <<>>
  /\ reply = NoText

\* a session on the dashboard whose goal amounts are gls
SessionWith(gls) ==
  /\ messages = <<>>
  /\ income = 0
  /\ expenses = 0
  /\ goals = gls
  /\ current_savings = 0
  /\ open_dialog = "None"
  /\ sb_income = 0
  /\ sb_expenses = 0
  /\ income_from = "default"
  /\ goal_categories = GOAL_CATEGORIES
  /\ sort_option = SortOptions[1]
  /\ goals_data = <<>>

\* the session state after the first run of the script
SessionInit == SessionWith([g \in Categories |-> 0])

\* the environment after the first run of the script (load_dotenv and the
\* key lookup of the AI Assistant section have run)
EnvInit(environs, files) ==
  \E e \in environs, f \in files :
    /\ os_environ = FindKey(e, f).environ
    /\ dotenv_file = f

----------------------------------------------------------------------------
(* app.py: what one interaction of the user does.  A dialog is modal      *)
(* (dismissible = False): while one is open only its own widgets respond, *)
(* and each use of them reruns the dialog function alone; everything      *)
(* else reruns the whole script.  A script run is one thread: a widget    *)
(* used while run_ai_assistant is running takes effect when the call has  *)
(* returned, at the script's next st.* call, where the run is abandoned   *)
(* and the script starts again with the new widget value.                 *)

\* the widget income is taken from after a run of the sidebar
SidebarIncomeFrom(edited, by_key) ==
  IF edited = "income_input" \/ (by_key /\ sb_income # income) THEN "sidebar" ELSE income_from

\* the session state after the sidebar block ran
RunSidebar(s, edited, by_key) ==
  /\ income' = s.income
  /\ expenses' = s.expenses
  /\ current_savings' = s.current_savings
  /\ sb_income' = s.income
  /\ sb_expenses' = s.expenses
  /\ income_from' = SidebarIncomeFrom(edited, by_key)

\* the user changes one of the sidebar's number inputs
SidebarEdit ==
  /\ pc = "idle"
  /\ open_dialog = "None"
  /\ \E by_key \in BOOLEAN :
       \/ \E typed \in IncomeInputs :
            RunSidebar(Sidebar("income_input", typed, by_key), "income_input", by_key)
       \/ \E typed \in ExpenseInputs :
            RunSidebar(Sidebar("expenses_input", typed, by_key), "expenses_input", by_key)
       \/ \E typed \in SavingsInputs :
            RunSidebar(Sidebar("savings_input", typed, by_key), "savings_input", by_key)
  /\ UNCHANGED <<goals, open_dialog, messages, envVars, agentVars, dialogVars, calcVars>>

\* "Open ->" on one of the three cards: the flag is set, the script reruns
\* and draws the dialog, whose new inputs start from the session values
\* and whose new selectbox shows its first option
OpenDialog ==
  /\ pc = "idle"
  /\ open_dialog = "None"
  /\ \E d \in {"income", "papercut", "goal"}, by_key \in BOOLEAN, today \in DialogDays :
       LET s == Sidebar("", 0, by_key)
       IN  /\ open_dialog' = d
           /\ RunSidebar(s, "", by_key)
           /\ goals_data' =
                IF d = "goal"
                  THEN Listing(sort_option,
                               GoalsData(goal_categories, goals, s.income, s.expenses,
                                         s.current_savings, today))
                  ELSE <<>>
  /\ UNCHANGED <<goals, messages, envVars, agentVars, goal_categories, sort_option, calcVars>>

\* the user changes an input of the income dialog: dialog_income reruns
DialogIncomeEdit ==
  /\ pc = "idle"
  /\ open_dialog = "income"
  /\ \/ \E typed \in IncomeInputs :
          /\ income' = typed
          /\ income_from' = "dialog"
          /\ UNCHANGED expenses
     \/ \E typed \in ExpenseInputs :
          /\ expenses' = typed
          /\ UNCHANGED <<income, income_from>>
  /\ UNCHANGED <<current_savings, goals, open_dialog, sb_income, sb_expenses,
                 messages, envVars, agentVars, dialogVars, calcVars>>

\* the user changes a goal amount of the goal dialog: dialog_goal reruns
DialogGoalEdit ==
  /\ pc = "idle"
  /\ open_dialog = "goal"
  /\ \E g \in Categories, typed \in GoalInputs, today \in DialogDays :
       /\ goals' = [goals EXCEPT ![g] = typed]
       /\ goals_data' = DialogGoal(goals', sort_option, today)
  /\ UNCHANGED <<income, expenses, current_savings, open_dialog, sb_income,
                 sb_expenses, income_from, messages, envVars, agentVars,
                 goal_categories, sort_option, calcVars>>

\* the user selects a "Sort by" option of the goal dialog: dialog_goal reruns
DialogGoalSort ==
  /\ pc = "idle"
  /\ open_dialog = "goal"
  /\ \E i \in 1 .. Len(SortOptions), today \in DialogDays :
       /\ sort_option' = SortOptions[i]
       /\ goals_data' = DialogGoal(goals, sort_option', today)
  /\ UNCHANGED <<sessionVars, messages, envVars, agentVars, goal_categories, calcVars>>

\* "Back to dashboard": the flag is cleared and the whole script reruns;
\* the dialog's widgets are not drawn, and their state is dropped
BackToDashboard ==
  /\ pc = "idle"
  /\ open_dialog # "None"
  /\ open_dialog' = "None"
  /\ \E by_key \in BOOLEAN : RunSidebar(Sidebar("", 0, by_key), "", by_key)
  /\ sort_option' = SortOptions[1]
  /\ goals_data' = <<>>
  /\ UNCHANGED <<goals, messages, envVars, agentVars, goal_categories, calcVars>>

\* the chat messages submitted so far
Turns(msgs) == Cardinality({i \in 1 .. Len(msgs) : msgs[i].role = "user"})

\* a chat message is submitted: the script reruns, builds the context,
\* appends the user's message and calls run_ai_assistant
ChatSubmit ==
  /\ pc = "idle"
  /\ open_dialog = "None"
  /\ Turns(messages) < MaxTurns
  /\ \E prompt \in ChatInputs, by_key \in BOOLEAN :
       LET s == Sidebar("", 0, by_key)
       IN  /\ RunSidebar(s, "", by_key)
           /\ messages' = Append(messages, [role |-> "user", content |-> Text("prompt", prompt)])
           /\ call_args' = [user_message |-> prompt,
                            budget_context |-> budget_context(s.income, s.expenses,
                                  s.monthly_savings, s.current_savings, goals)]
  /\ pc' = "get_key"
  /\ UNCHANGED <<goals, open_dialog, envVars, api_key, model_idx, attempts, reply,
                 dialogVars, calcVars>>

\* run_ai_assistant looks the key up; without one it returns at once
GetKey ==
  /\ pc = "get_key"
  /\ os_environ' = FindKey(os_environ, dotenv_file).environ
  /\ api_key' = _get_dedalus_api_key(os_environ, dotenv_file)
  /\ IF api_key' = ""
       THEN /\ reply' = NotConfigured
            /\ pc' = "return"
            /\ UNCHANGED model_idx
       ELSE /\ model_idx' = 1
            /\ pc' = "try_model"
            /\ UNCHANGED reply
  /\ UNCHANGED <<sessionVars, messages, dotenv_file, call_args, attempts, dialogVars, calcVars>>

\* one pass of the loop over models_to_try
TryModel ==
  /\ pc = "try_model"
  /\ \E outcome \in Outcomes :
       LET h == Handle(outcome)
       IN  /\ attempts' = Append(attempts,
                  [ model |-> models_to_try[model_idx],
                    input |-> Prompt(call_args.user_message, call_args.budget_context),
                    outcome |-> outcome ])
           /\ CASE h.do = "return" ->
                     /\ reply' = h.text
                     /\ pc' = "return"
                     /\ UNCHANGED model_idx
                [] h.do = "continue" /\ model_idx < Len(models_to_try) ->
                     /\ model_idx' = model_idx + 1
                     /\ UNCHANGED <<pc, reply>>
                [] h.do = "continue" /\ model_idx >= Len(models_to_try) ->
                     /\ reply' = AllModelsFailed
                     /\ pc' = "return"
                     /\ UNCHANGED model_idx
                [] OTHER ->
                     /\ pc' = "raised"
                     /\ UNCHANGED <<model_idx, reply>>
  /\ UNCHANGED <<sessionVars, messages, envVars, call_args, api_key, dialogVars, calcVars>>

\* the reply is shown and appended; the call's locals are gone
ChatReply ==
  /\ pc = "return"
  /\ messages' = Append(messages, [role |-> "assistant", content |-> reply])
  /\ pc' = "idle"
  /\ call_args' = <<>>
  /\ api_key' = ""
  /\ model_idx' = 0
  /\ attempts' = <<>>
  /\ reply' = NoText
  /\ UNCHANGED <<sessionVars, envVars, dialogVars, calcVars>>

\* a sidebar input was changed while run_ai_assistant was running: when
\* the call has returned the run stops at the end of the spinner, before
\* the reply is appended, and the script runs again with the new value;
\* chat_input gives None in that run
ChatInterrupted ==
  /\ pc = "return"
  /\ \E by_key \in BOOLEAN :
       \/ \E typed \in IncomeInputs :
            RunSidebar(Sidebar("income_input", typed, by_key), "income_input", by_key)
       \/ \E typed \in ExpenseInputs :
            RunSidebar(Sidebar("expenses_input", typed, by_key), "expenses_input", by_key)
       \/ \E typed \in SavingsInputs :
            RunSidebar(Sidebar("savings_input", typed, by_key), "savings_input", by_key)
  /\ pc' = "idle"
  /\ call_args' = <<>>
  /\ api_key' = ""
  /\ model_idx' = 0
  /\ attempts' = <<>>
  /\ reply' = NoText
  /\ UNCHANGED <<goals, open_dialog, messages, envVars, dialogVars, calcVars>>

----------------------------------------------------------------------------
(* utils.py called on its own *)

CallCalculateMonthlySavings ==
  /\ calc_fn = "calculate_monthly_savings"
  /\ calc_ret = None
  /\ calc_ret' = Some(calculate_monthly_savings(calc_args.income, calc_args.expenses))
  /\ UNCHANGED <<calc_fn, calc_args, appVars>>

CallPaperCutYearlyImpact ==
  /\ calc_fn = "paper_cut_yearly_impact"
  /\ calc_ret = None
  /\ calc_ret' = Some(paper_cut_yearly_impact(calc_args.current_expense,
                          calc_args.alternative_expense, calc_args.frequency_per_week,
                          calc_args.description))
  /\ UNCHANGED <<calc_fn, calc_args, appVars>>

\* today is the date datetime.now() gives during the call
CallGoalEta ==
  /\ calc_fn = "goal_eta"
  /\ calc_ret = None
  /\ calc_ret' = Some(goal_eta(calc_args.goal_amount, calc_args.current_savings,
                          calc_args.monthly_savings, calc_args.goal_name, calc_args.today))
  /\ UNCHANGED <<calc_fn, calc_args, appVars>>

----------------------------------------------------------------------------
(* Specifications *)

\* the application: a key in the environment, or none anywhere
Init ==
  /\ CalcNone
  /\ SessionInit
  /\ EnvInit({None, Some("sk-live")}, {None})
  /\ AgentIdle

Next ==
  \/ SidebarEdit
  \/ OpenDialog
  \/ DialogIncomeEdit
  \/ DialogGoalEdit
  \/ DialogGoalSort
  \/ BackToDashboard
  \/ ChatSubmit
  \/ GetKey
  \/ TryModel
  \/ ChatReply
  \/ ChatInterrupted

Spec == Init /\ [][Next]_vars

\* the assistant alone, under every setting of the key
InitAgent ==
  /\ CalcNone
  /\ SessionInit
  /\ EnvInit(Settings, Settings)
  /\ AgentIdle

NextAgent ==
  \/ ChatSubmit
  \/ GetKey
  \/ TryModel
  \/ ChatReply

SpecAgent == InitAgent /\ [][NextAgent]_vars

\* the dashboard and its dialogs, the goals set in earlier use
InitDialogs ==
  /\ CalcNone
  /\ \E gls \in [Categories -> GoalTargets] : SessionWith(gls)
  /\ EnvInit({None}, {None})
  /\ AgentIdle

NextDialogs ==
  \/ SidebarEdit
  \/ OpenDialog
  \/ DialogIncomeEdit
  \/ DialogGoalEdit
  \/ DialogGoalSort
  \/ BackToDashboard

SpecDialogs == InitDialogs /\ [][NextDialogs]_vars

\* the functions of utils.py alone
InitCalc ==

  /\ CalcPending
  /\ SessionInit
  /\ EnvInit({None}, {None})
  /\ AgentIdle

NextCalc ==
  \/ CallCalculateMonthlySavings
  \/ CallPaperCutYearlyImpact
  \/ CallGoalEta

SpecCalc == InitCalc /\ [][NextCalc]_vars

----------------------------------------------------------------------------
(* Properties of utils.py, checked under SpecCalc *)

GoalEtaDone == calc_fn = "goal_eta" /\ calc_ret # None
PaperCutDone == calc_fn = "paper_cut_yearly_impact" /\ calc_ret # None
SavingsDone == calc_fn = "calculate_monthly_savings" /\ calc_ret # None

\* what is left to save, amounts below zero counting as zero
Remaining == Max(0, calc_args.goal_amount) - Max(0, calc_args.current_savings)

C2_ReachableIffNotDeficit ==
  GoalEtaDone =>
    /\ calc_ret[1].reachable = FALSE <=>
         (calc_args.monthly_savings <= 0 /\ Remaining > 0)
    /\ calc_ret[1].months_needed = None <=> calc_ret[1].reachable = FALSE
    /\ Remaining <= 0 =>
         calc_ret[1].reachable = TRUE /\ calc_ret[1].months_needed = Some(0)

\* a goal already met under a deficit budget
C2_Witness ==
  /\ GoalEtaDone
  /\ Remaining <= 0
  /\ calc_args.monthly_savings < 0
  /\ calc_ret[1].reachable = TRUE
  /\ calc_ret[1].months_needed = Some(0)

\* C3 as stated: the returned, cent-rounded fields satisfy
\* yearly_savings = yearly_current - yearly_alternative.
C3_SavingsIsDifferenceOfReturned ==
  PaperCutDone =>
    calc_ret[1].yearly_savings =
      calc_ret[1].yearly_current - calc_ret[1].yearly_alternative

\* the yearly difference before rounding, in thousandths of a dollar
ExactYearlySavings ==
  (calc_args.current_expense - calc_args.alternative_expense)
    * Max(0, calc_args.frequency_per_week) * 52

\* C3, amended: yearly_savings is the unrounded difference of the two
\* yearly costs rounded to the cent, and is within one cent of
\* yearly_current - yearly_alternative as returned.
C3_SavingsIsRoundedDifference ==
  PaperCutDone =>
    /\ Abs(10 * calc_ret[1].yearly_savings - ExactYearlySavings) <= 5
    /\ Abs(calc_ret[1].yearly_savings
             - (calc_ret[1].yearly_current - calc_ret[1].yearly_alternative)) <= 1

\* a result whose three fields do not add up (0.16, 0.05, 0.10)
C3_Witness ==
  /\ PaperCutDone
  /\ calc_ret[1].yearly_savings #
       calc_ret[1].yearly_current - calc_ret[1].yearly_alternative

\* goal_eta takes its third branch
HorizonCase == GoalEtaDone /\ Remaining > 0 /\ calc_args.monthly_savings > 0

\* t tenths of a month is remaining / monthly rounded to one decimal
IsRoundedMonths(t) ==
  2 * Abs(10 * Remaining - t * calc_args.monthly_savings) <= calc_args.monthly_savings

IsEtaDays(d) ==
  /\ d * calc_args.monthly_savings * 100 <= Remaining * 3044
  /\ Remaining * 3044 < (d + 1) * calc_args.monthly_savings * 100

C5_SavingsFlooredAtZero ==
  SavingsDone =>
    /\ calc_ret[1] >= 0
    /\ calc_args.expenses >= calc_args.income => calc_ret[1] = 0
    /\ calc_args.expenses < calc_args.income =>
         calc_ret[1] = calc_args.income - calc_args.expenses

\* expenses over a negative income
C5_Witness ==
  /\ SavingsDone
  /\ calc_args.income < 0
  /\ calc_args.expenses > calc_args.income
  /\ calc_ret[1] = 0

----------------------------------------------------------------------------
(* Properties of run_ai_assistant, checked under SpecAgent *)

ServerError(k) == ~attempts[k].outcome.ok /\ attempts[k].outcome.cls = "InternalServerError"
Min(a, b) == IF a <= b THEN a ELSE b

\* C6: the models are attempted in the order of models_to_try, each at
\* most once and with the same prompt; a model is attempted only after
\* server errors of all earlier ones, and in a finished call that found a
\* key model k was attempted exactly when every earlier attempt ended in a
\* server error; server errors of all three give the try-again-later text
\* naming the support contact, and a success is the last attempt and its
\* output is the text returned.
C6_FallbackInOrder ==
  /\ Len(attempts) <= Len(models_to_try)
  /\ \A k \in 1 .. Len(attempts) :
       /\ attempts[k].model = models_to_try[k]
       /\ attempts[k].input.user_message = call_args.user_message
       /\ attempts[k].input.budget_context = call_args.budget_context
       /\ \A j \in 1 .. k - 1 : ServerError(j)
  /\ pc = "return" /\ api_key # "" =>
       /\ \A k \in 1 .. Len(models_to_try) :
            k <= Len(attempts) <=>
              \A j \in 1 .. Min(k - 1, Len(attempts)) : ServerError(j)
       /\ (\A k \in 1 .. Len(attempts) : ServerError(k)) =>
            /\ Len(attempts) = Len(models_to_try)
            /\ reply.kind = "server errors for all models, try again later"
            /\ reply.detail = "support@dedaluslabs.ai"
       /\ \A k \in 1 .. Len(attempts) :
            attempts[k].outcome.ok =>
              /\ k = Len(attempts)
              /\ reply.kind = "answer"
              /\ reply.detail = IF attempts[k].outcome.text = "" THEN "No response."
                                ELSE attempts[k].outcome.text

\* all three models answered with a server error
C6_Witness ==
  /\ pc = "return"
  /\ Len(attempts) = 3
  /\ \A k \in 1 .. 3 : ServerError(k)
  /\ reply = AllModelsFailed

ReturnedKinds ==
  {"not configured", "answer", "server errors for all models, try again later",
   "rate limit, wait a minute", "could not reach Dedalus", "API error",
   "something went wrong"}

\* C7: whatever the attempts end in, run_ai_assistant raises nothing: it
\* makes at most three attempts and then holds one of its texts to return.
C7_AlwaysReturnsText ==
  /\ pc \in {"idle", "get_key", "try_model", "return"}
  /\ Len(attempts) <= 3
  /\ pc = "return" => reply.kind \in ReturnedKinds

\* a fault that is none of the API's errors, turned into a text
C7_Witness ==
  /\ pc = "return"
  /\ Len(attempts) = 2
  /\ attempts[2].outcome.cls = "ValueError"
  /\ reply = Text("something went wrong", "bad value")

Blank(setting) == setting = None \/ setting[1] \in {"", "  "}
\* the DEDALUS_API_KEY setting the lookup ends up with
Effective == IF Blank(os_environ) THEN dotenv_file ELSE os_environ
NoCredential ==
  \/ Blank(Effective)
  \/ Effective[1] \in {"your_key_here", "YOUR_KEY_HERE", "your_actual_key_here"}

\* C8: when DEDALUS_API_KEY is absent, empty or a placeholder, the call
\* returns the not-configured text straight after the lookup and attempts
\* no model.
C8_NoKeyNoAttempt ==
  (NoCredential /\ pc \in {"try_model", "return", "raised"}) =>
    /\ pc = "return"
    /\ reply = NotConfigured
    /\ attempts = <<>>

\* a placeholder in capitals
C8_Witness ==
  /\ pc = "return"
  /\ os_environ = Some("YOUR_KEY_HERE")
  /\ reply = NotConfigured
  /\ attempts = <<>>

Stopping ==
  {"RateLimitError", "APIConnectionError", "APITimeoutError", "APIError", "AuthenticationError"}

\* C9: an attempt that fails with a rate limit, a connection failure or a
\* generic API error is the last attempt of the call, and the text
\* returned is that failure's: wait-a-minute, could-not-reach, or the API
\* error text with the backend's message.
C9_FailureKindStops ==
  \A k \in 1 .. Len(attempts) :
    (~attempts[k].outcome.ok /\ attempts[k].outcome.cls \in Stopping) =>
      /\ k = Len(attempts)
      /\ pc = "return"
      /\ attempts[k].outcome.cls = "RateLimitError" =>
           reply = Text("rate limit, wait a minute", "")
      /\ attempts[k].outcome.cls \in {"APIConnectionError", "APITimeoutError"} =>
           reply = Text("could not reach Dedalus", "")
      /\ attempts[k].outcome.cls \in {"APIError", "AuthenticationError"} =>
           reply = Text("API error", attempts[k].outcome.text)

\* a rate limit on the second model, after a server error of the first
C9_Witness ==
  /\ pc = "return"
  /\ Len(attempts) = 2
  /\ ServerError(1)
  /\ attempts[2].outcome.cls = "RateLimitError"
  /\ reply = Text("rate limit, wait a minute", "")

----------------------------------------------------------------------------
(* Properties of the script, checked under Spec *)

Calling == pc # "idle"

----------------------------------------------------------------------------
(* More properties of utils.py, checked under SpecCalc *)

\* the frequency used: none below zero
UsedFrequency == Max(0, calc_args.frequency_per_week)

\* C11: yearly_current is current_expense * f * 52 rounded to the cent and
\* yearly_alternative is alternative_expense * f * 52 rounded to the cent,
\* f being the frequency or 0 when it is negative; a negative frequency
\* gives 0 in all three fields; (4.50, 0.20, 5) gives 1170.00, 52.00 and
\* 1118.00.
C11_YearlyIsRoundedProduct ==
  PaperCutDone =>
    /\ Abs(10 * calc_ret[1].yearly_current
             - calc_args.current_expense * UsedFrequency * 52) <= 5
    /\ Abs(10 * calc_ret[1].yearly_alternative
             - calc_args.alternative_expense * UsedFrequency * 52) <= 5
    /\ calc_args.frequency_per_week < 0 =>
         /\ calc_ret[1].yearly_current = 0
         /\ calc_ret[1].yearly_alternative = 0
         /\ calc_ret[1].yearly_savings = 0
    /\ ( /\ calc_args.current_expense = 450
         /\ calc_args.alternative_expense = 20
         /\ calc_args.frequency_per_week = 50 ) =>
         /\ calc_ret[1].yearly_current = 117000
         /\ calc_ret[1].yearly_alternative = 5200
         /\ calc_ret[1].yearly_savings = 111800

\* 4.50 against 0.20 at minus three times a week: nothing in a year
C11_Witness ==
  /\ PaperCutDone
  /\ calc_args.current_expense = 450
  /\ calc_args.alternative_expense = 20
  /\ calc_args.frequency_per_week = -30
  /\ calc_ret[1].yearly_current = 0
  /\ calc_ret[1].yearly_alternative = 0
  /\ calc_ret[1].yearly_savings = 0

\* the result of the same call with the two amounts floored at zero
ClampedCall ==
  goal_eta(Max(0, calc_args.goal_amount), Max(0, calc_args.current_savings),
           calc_args.monthly_savings, calc_args.goal_name, calc_args.today)

\* C12: goal_eta(g, c, m) has the months_needed, reachable and eta_date
\* of goal_eta(max(0, g), max(0, c), m); monthly_savings is not floored: a
\* rate below zero with something left to save is reported unreachable
\* with that rate in the message.
C12_NegativeAmountsAreZero ==
  GoalEtaDone =>
    /\ calc_ret[1].months_needed = ClampedCall.months_needed
    /\ calc_ret[1].reachable = ClampedCall.reachable
    /\ calc_ret[1].eta_date = ClampedCall.eta_date
    /\ (calc_args.current_savings < 0 /\ calc_args.goal_amount > 0
          /\ calc_args.monthly_savings > 0) =>
         \E t \in 0 .. 10 * calc_args.goal_amount :
           /\ 2 * Abs(10 * calc_args.goal_amount - t * calc_args.monthly_savings)
                <= calc_args.monthly_savings
           /\ calc_ret[1].months_needed = Some(t)
    /\ (calc_args.monthly_savings < 0 /\ Remaining > 0) =>
         /\ calc_ret[1].reachable = FALSE
         /\ calc_ret[1].message =
              <<"cannot reach", calc_args.goal_name, calc_args.monthly_savings>>

\* savings of -2 count as none: 3 to go at 1 a month, 3.0 months
C12_Witness ==
  /\ GoalEtaDone
  /\ calc_args.goal_amount = 3
  /\ calc_args.current_savings = -2
  /\ calc_args.monthly_savings = 1
  /\ calc_ret[1].months_needed = Some(30)

\* the result of the same call with another description
WithDescription(d) ==
  paper_cut_yearly_impact(calc_args.current_expense, calc_args.alternative_expense,
                          calc_args.frequency_per_week, d)

\* C13: an empty (or omitted, the default being empty) description is
\* replaced by 'Paper cut expense vs alternative', any other is returned
\* unchanged, and the three amounts are the same under every description.
C13_DescriptionDefault ==
  PaperCutDone =>
    /\ calc_args.description = "" =>
         calc_ret[1].description = "Paper cut expense vs alternative"
    /\ calc_args.description # "" =>
         calc_ret[1].description = calc_args.description
    /\ \A d \in Descriptions :
         /\ WithDescription(d).yearly_current = calc_ret[1].yearly_current
         /\ WithDescription(d).yearly_alternative = calc_ret[1].yearly_alternative
         /\ WithDescription(d).yearly_savings = calc_ret[1].yearly_savings

\* a call without a description
C13_Witness ==
  /\ PaperCutDone
  /\ calc_args.description = ""
  /\ calc_ret[1].description = "Paper cut expense vs alternative"
  /\ calc_ret[1].yearly_savings # 0

\* C17 as stated: in the third branch months_needed is above 0; it is 0
\* only for a goal already met.
C17_HorizonMonthsPositive ==
  GoalEtaDone =>
    /\ HorizonCase => \E t \in 1 .. 10 * Remaining : calc_ret[1].months_needed = Some(t)
    /\ calc_ret[1].months_needed = Some(0) => Remaining <= 0

\* C17, amended: in the third branch months_needed is never below 0, is
\* above 0 whenever remaining / monthly_savings is above 0.05 and is 0
\* whenever it is below 0.05; months_needed 0 with no eta_date is
\* returned only for a goal already met.
C17_HorizonMonthsRounded ==
  GoalEtaDone =>
    /\ HorizonCase =>
         \E t \in 0 .. 10 * Remaining :
           /\ calc_ret[1].months_needed = Some(t)
           /\ 20 * Remaining > calc_args.monthly_savings => t > 0
           /\ 20 * Remaining < calc_args.monthly_savings => t = 0
    /\ (calc_ret[1].months_needed = Some(0) /\ calc_ret[1].eta_date = None) =>
         Remaining <= 0

\* 1 to go at 100 a month: 0.0 months, due today
C17_Witness ==
  /\ HorizonCase
  /\ Remaining = 1
  /\ calc_args.monthly_savings = 100
  /\ calc_ret[1].months_needed = Some(0)
  /\ calc_ret[1].eta_date = Some(calc_args.today)

----------------------------------------------------------------------------
(* Properties of the goal dialog and of the chat *)

\* the goal names in the order the dialog lists them
ListedNames == [i \in 1 .. Len(goals_data) |-> goals_data[i].goal_name]

GoalDialogShown(option) == open_dialog = "goal" /\ sort_option = option

\* C14: GOAL_CATEGORIES is the list Home, Car, Vacation, School and stays
\* so under every operation; the goal dialog with the Default sort option
\* lists the goals in that order, each with its target, whatever the
\* targets and the ETAs are.
C14_DefaultKeepsCategoryOrder ==
  /\ goal_categories = <<"Home", "Car", "Vacation", "School">>
  /\ GoalDialogShown("Default (Home, Car, Vacation, School)") =>
       /\ ListedNames = <<"Home", "Car", "Vacation", "School">>
       /\ \A i \in 1 .. Len(goals_data) :
            goals_data[i].target = goals[goals_data[i].goal_name]

\* Default order although Car and School are met and Home and Vacation
\* are months away
C14_Witness ==
  /\ GoalDialogShown("Default (Home, Car, Vacation, School)")
  /\ goals["Home"] > goals["Car"]
  /\ goals["Vacation"] > goals["School"]
  /\ goals_data[1].eta_result.months_needed = Some(25)
  /\ goals_data[2].eta_result.months_needed = Some(0)
  /\ ListedNames = <<"Home", "Car", "Vacation", "School">>

\* C16 as stated: the history alternates user, assistant from a user
\* message on; it has even length whenever no call is running, and while
\* the one call runs only the last user message is unanswered.
C16_HistoryAlternates ==
  /\ \A i \in 1 .. Len(messages) :
       messages[i].role = IF i % 2 = 1 THEN "user" ELSE "assistant"
  /\ pc = "idle" => Len(messages) % 2 = 0
  /\ pc # "idle" => Len(messages) % 2 = 1

\* months_needed of the i-th goal listed
ListedMonths(i) == goals_data[i].eta_result.months_needed

\* the place of a goal name in GOAL_CATEGORIES
CategoryIndex(name) ==
  CHOOSE k \in 1 .. Len(GOAL_CATEGORIES) : GOAL_CATEGORIES[k] = name

\* C18: with "Soonest ETA first" the dialog lists each of the four
\* categories once, each with the months_needed goal_eta gives it, in
\* non-decreasing months_needed, the goals without months_needed last,
\* and goals with the same months_needed in GOAL_CATEGORIES order.
C18_SoonestEtaFirst ==
  GoalDialogShown("Soonest ETA first") =>
    /\ Len(goals_data) = 4
    /\ {ListedNames[i] : i \in 1 .. Len(goals_data)} = {"Home", "Car", "Vacation", "School"}
    /\ \A i \in 1 .. Len(goals_data) :
         /\ goals_data[i].target = goals[ListedNames[i]]
         /\ ListedMonths(i) = None <=>
              /\ goals[ListedNames[i]] > current_savings
              /\ income <= expenses
    /\ \A i, j \in 1 .. Len(goals_data) :
         i < j =>
           /\ ListedMonths(i) = None => ListedMonths(j) = None
           /\ (ListedMonths(i) # None /\ ListedMonths(j) # None) =>
                ListedMonths(i)[1] <= ListedMonths(j)[1]
           /\ ListedMonths(i) = ListedMonths(j) =>
                CategoryIndex(ListedNames[i]) < CategoryIndex(ListedNames[j])

\* Vacation is met, Car and School tie at 0.3 months, Home takes 2.5
C18_Witness ==
  /\ GoalDialogShown("Soonest ETA first")
  /\ ListedNames = <<"Vacation", "Car", "School", "Home">>
  /\ ListedMonths(1) = Some(0)
  /\ ListedMonths(2) = Some(3)
  /\ ListedMonths(3) = Some(3)
  /\ ListedMonths(4) = Some(25)

====
